---- MODULE Spec2Model ----
(***************************************************************************)
(* BLTouch probe controller (klippy/extras/bltouch.py).                    *)
(*                                                                         *)
(* Times are integers in microseconds.  The controller's methods are       *)
(* operators over a record `w` holding the fields a call reads and writes  *)
(* (the object's fields, the toolhead's print time, the steppers'          *)
(* commanded positions) together with what the call did (the calls made    *)
(* on the collaborators, the exception raised).  One action per entry      *)
(* point applies the operator to the current state.                        *)
(***************************************************************************)
EXTENDS Integers, Sequences, FiniteSets, TLC

\* ------------------------------------------------------------------ bounds
\* Largest toolhead print time the environment moves to.
MaxTime == 600000000
\* Controller calls in one behaviour.
MaxCalls == 3
\* Timeline microseconds per mcu clock tick.
ClockTickLen == 7
\* Largest configured pin_move_time tried, in half signal periods.
MaxPinMoveSteps == 20

\* --------------------------------------------------------------- constants
SIGNAL_PERIOD == 25600
MIN_CMD_TIME == 4 * SIGNAL_PERIOD
TEST_TIME == 300000000

\* Pulse widths of the commands in microseconds; None is "none".
Commands == [none |-> 0, pin_down |-> 700, touch_mode |-> 1200,
             pin_up |-> 1500, self_test |-> 1800, reset |-> 2200]
CommandNames == DOMAIN Commands

\* Configured pin_move_time values (microseconds): the default 0.200 s and a
\* value below the minimum command time.
PinMoveTimeConfigs == {200000, 50000}
\* Configured pin_move_time values tried on the calculation alone: every half
\* signal period up to the bound, and the microsecond before and after each.
PinMoveStep == SIGNAL_PERIOD \div 2
PinMoveTimeInputs ==
    {k * PinMoveStep + e : k \in 0..MaxPinMoveSteps, e \in {-1, 0, 1}}
\* Values of a stepper's position (commanded, and hardware counter): the code
\* only compares positions for equality and copies them.
StepperPositions == {0, 1}
OtherPosition(p) == CHOOSE q \in StepperPositions : q # p
\* Stepper lists the endstop may have attached (add_stepper at config time).
StepperConfigs == {<< >>, <<1>>, <<1, 2>>}
\* Toolhead activity between controller calls, as a print-time advance: just
\* short of the retest interval, so that one move stays inside it and two
\* moves leave it.
MoveTimes == {TEST_TIME - 1000000}
\* printer_state events.
StateEvents == {"connect", "ready"}

\* ----------------------------------------------------------------- helpers
Max(a, b) == IF a >= b THEN a ELSE b
Range(s) == {s[i] : i \in DOMAIN s}
Ceil(a, b) == (a + b - 1) \div b
Ev(e, a) == [ev |-> e, arg |-> a]

\* The calculation rounding up even a whole number of periods.
PinMoveTime_NextPeriod(cfg) ==
    (Max(cfg, MIN_CMD_TIME) \div SIGNAL_PERIOD + 1) * SIGNAL_PERIOD

\* pin_move_time as __init__ computes it from the configured value.
PinMoveTime(cfg) == Ceil(Max(cfg, MIN_CMD_TIME), SIGNAL_PERIOD) * SIGNAL_PERIOD

\* The mcu's clock translation: truncation to whole ticks.
print_time_to_clock(t) == t \div ClockTickLen
seconds_to_clock(d) == d \div ClockTickLen
clock_to_print_time(c) == c * ClockTickLen

VARIABLES
    next_cmd_time,          \* self.next_cmd_time
    next_test_time,         \* self.next_test_time
    pin_up_touch_triggered, \* config triggered_on_pin_up_touch_mode
    pin_up_triggered,       \* config triggered_on_pin_up
    pin_move_time_config,   \* config.getfloat('pin_move_time', 0.200)
    pin_move_time,          \* self.pin_move_time
    start_mcu_pos,          \* self.start_mcu_pos: sequence of <<stepper, pos>>
    steppers,               \* mcu_endstop.get_steppers()
    commanded_position,     \* stepper -> get_commanded_position()
    mcu_position,           \* stepper -> get_mcu_position()
    print_time,             \* toolhead.get_last_move_time()
    op,                     \* the entry point of the last step
    trace,                  \* calls made by the last step, in order
    err,                    \* exception message the last step raised, "" if none
    err_kind,               \* "", "EndstopError" or "config_error"
    window,                 \* the verification window the last step armed
    last_window_end,        \* latest end of all windows armed so far
    prev_positions,         \* verify_state's local prev_positions
    armed_positions,        \* commanded positions the sensing primitive left
    last_test,              \* the last sensor test run: its print time and outcome
    prev_test,              \* when the last step ran the test: last_test before it
    sends,                  \* the send_cmd calls of the last step, in order
    syncs,                  \* the sync_print_time calls of the last step, in order
    attempt,                \* the homing attempt: the last home_prepare and since
    last_call,              \* the last test_sensor call that had something to test
    ncalls

vars == <<next_cmd_time, next_test_time, pin_up_touch_triggered,
          pin_up_triggered, pin_move_time_config, pin_move_time,
          start_mcu_pos, steppers,
          commanded_position, mcu_position, print_time, op, trace, err,
          err_kind, window, last_window_end, prev_positions,
          armed_positions, last_test, prev_test, sends, syncs, attempt,
          last_call, ncalls>>

config == <<pin_up_touch_triggered, pin_up_triggered, pin_move_time_config,
            pin_move_time, steppers>>

\* What the sensing primitive may leave in the steppers' commanded positions
\* while armed: untouched, or every stepper's position replaced.
ArmedPositions ==
    {commanded_position,
     [s \in Range(steppers) |-> OtherPosition(commanded_position[s])]}
NoWindow == [start |-> 0, end |-> 0, triggered |-> FALSE, prev_end |-> 0]
\* pt: print time of the call, ok: its verification's outcome, ok_pt: print
\* time of the latest call whose verification succeeded (-1: none yet).
NoTest == [pt |-> -1, ok |-> FALSE, ok_pt |-> -1]

\* phase: "none" before any home_prepare, "prepared" once home_prepare has
\* returned, "aborted" once it has raised, "finalized" once home_finalize has
\* reached its deploy check after either; start: next_cmd_time when the
\* home_prepare that returned last was called; after_connect: that call came
\* straight after a connect that raised nothing; pin_down_at: the time its
\* pin_down was sent for (-1: none yet).
NoAttempt == [phase |-> "none", start |-> 0, after_connect |-> FALSE,
              pin_down_at |-> -1]
\* pt: print time of the call; kind: "skip", "pass" or "fail".
NoCall == [pt |-> -1, kind |-> "none"]

\* The record a call works on, at the start of a step.
World ==
    [next_cmd_time |-> next_cmd_time, next_test_time |-> next_test_time,
     start_mcu_pos |-> start_mcu_pos, commanded_position |-> commanded_position,
     print_time |-> print_time, trace |-> << >>, err |-> "",
     window |-> NoWindow, last_window_end |-> last_window_end,
     prev_positions |-> commanded_position,
     armed_positions |-> commanded_position,
     last_test |-> last_test, prev_test |-> NoTest,
     sends |-> << >>, syncs |-> << >>,
     attempt |-> attempt, last_call |-> last_call]

Init ==
    /\ next_cmd_time = 0
    /\ next_test_time = 0
    /\ pin_up_touch_triggered \in BOOLEAN
    /\ pin_up_triggered \in BOOLEAN
    /\ pin_move_time_config \in PinMoveTimeConfigs
    /\ pin_move_time = PinMoveTime(pin_move_time_config)
    /\ start_mcu_pos = << >>
    /\ steppers \in StepperConfigs
    /\ commanded_position = [s \in Range(steppers) |-> 0]
    /\ mcu_position = [s \in Range(steppers) |-> 0]
    /\ print_time = 0
    /\ op = "init"
    /\ trace = << >>
    /\ err = ""
    /\ err_kind = ""
    /\ window = NoWindow
    /\ last_window_end = 0
    /\ prev_positions = commanded_position
    /\ armed_positions = commanded_position
    /\ last_test = NoTest
    /\ prev_test = NoTest
    /\ sends = << >>
    /\ syncs = << >>
    /\ attempt = NoAttempt
    /\ last_call = NoCall
    /\ ncalls = 0

\* ------------------------------------------------------ controller methods
Log(w, e, a) == [w EXCEPT !.trace = Append(@, Ev(e, a))]

\* sync_mcu_print_time, with est_time the mcu's estimated print time.
sync_mcu_print_time(w, est_time) ==
    [Log(w, "sync_mcu_print_time", "") EXCEPT
        !.next_cmd_time = Max(@, est_time + MIN_CMD_TIME)]

\* toolhead.dwell: the toolhead's last move time moves on by the delay.
dwell(w, delay) == [w EXCEPT !.print_time = @ + delay]

\* What one sync_print_time call saw and left: the toolhead's last move time
\* and next_cmd_time on entry, the dwell it asked for (0: none), and both
\* times on return.
Synced(w, delay, print_time_after, next_cmd_time_after) ==
    [print_time |-> w.print_time, next_cmd_time |-> w.next_cmd_time,
     dwell |-> delay, print_time_after |-> print_time_after,
     next_cmd_time_after |-> next_cmd_time_after]

\* sync_print_time that always takes the toolhead's time, pause or not.
sync_print_time_Rewind(w) ==
    [Log(w, "sync_print_time", "") EXCEPT !.next_cmd_time = w.print_time]

\* sync_print_time that never asks the toolhead to dwell.
sync_print_time_NoDwell(w) ==
    IF w.next_cmd_time > w.print_time
    THEN [Log(w, "sync_print_time", "") EXCEPT
            !.syncs = Append(@, Synced(w, 0, w.print_time, w.next_cmd_time))]
    ELSE [Log(w, "sync_print_time", "") EXCEPT
            !.next_cmd_time = w.print_time,
            !.syncs = Append(@, Synced(w, 0, w.print_time, w.print_time))]

\* sync_print_time.
sync_print_time(w) ==
    IF w.next_cmd_time > w.print_time
    THEN LET delay == w.next_cmd_time - w.print_time
             w1 == dwell(Log(w, "sync_print_time", "dwell"), delay)
         IN  [w1 EXCEPT
                !.syncs = Append(@, Synced(w, delay, w1.print_time,
                                           w1.next_cmd_time))]
    ELSE [Log(w, "sync_print_time", "") EXCEPT
            !.next_cmd_time = w.print_time,
            !.syncs = Append(@, Synced(w, 0, w.print_time, w.print_time))]

\* send_cmd; the value returned is the new next_cmd_time.
send_cmd(w, cmd, duration) ==
    LET cmd_clock == print_time_to_clock(w.next_cmd_time)
                     + seconds_to_clock(Max(duration, MIN_CMD_TIME))
    IN  [Log(w, "send_cmd", cmd) EXCEPT
            !.next_cmd_time = clock_to_print_time(cmd_clock),
            !.sends = Append(@, [cmd |-> cmd, duration |-> duration,
                                 at |-> w.next_cmd_time,
                                 returned |-> clock_to_print_time(cmd_clock)])]

\* verify_state that never writes the saved positions back.
verify_state_NoRestore(w, check_start_time, check_end_time, triggered, msg, ok, armed) ==
    LET w1 == [Log(w, "home_start", "") EXCEPT
                 !.prev_positions = w.commanded_position,
                 !.window = [start |-> check_start_time,
                             end |-> check_end_time,
                             triggered |-> triggered,
                             prev_end |-> w.last_window_end],
                 !.last_window_end = Max(@, check_end_time)]
        w2 == [Log(w1, "home_wait", IF ok THEN "triggered" ELSE "timeout") EXCEPT
                 !.commanded_position = armed,
                 !.armed_positions = armed]
    IN  IF ~ok THEN [w2 EXCEPT !.err = "BLTouch failed to " \o msg] ELSE w2

\* verify_state.  home_wait leaves the commanded positions at `armed` and
\* either returns (ok: the expected state was seen) or raises TimeoutError.
verify_state(w, check_start_time, check_end_time, triggered, msg, ok, armed) ==
    LET w1 == [Log(w, "home_start", "") EXCEPT
                 !.prev_positions = w.commanded_position,
                 !.window = [start |-> check_start_time,
                             end |-> check_end_time,
                             triggered |-> triggered,
                             prev_end |-> w.last_window_end],
                 !.last_window_end = Max(@, check_end_time)]
        w2 == [Log(w1, "home_wait", IF ok THEN "triggered" ELSE "timeout") EXCEPT
                 !.commanded_position = armed,
                 !.armed_positions = armed]
    IN  IF ~ok
        THEN [w2 EXCEPT !.err = "BLTouch failed to " \o msg]
        ELSE [w2 EXCEPT !.commanded_position = w1.prev_positions]

\* raise_probe that hands verify_state the window's two ends transposed.
raise_probe_WindowSwapped(w, ok, armed) ==
    LET w1 == send_cmd(w, "reset", MIN_CMD_TIME)
        w2 == send_cmd(w1, "pin_up", pin_move_time)
        check_start_time == w2.next_cmd_time
        w3 == send_cmd(w2, "none", MIN_CMD_TIME)
        check_end_time == w3.next_cmd_time
    IN  verify_state(w3, check_end_time, check_start_time,
                     pin_up_triggered, "raise probe", ok, armed)

\* raise_probe that resets the probe without the pin_up command.
raise_probe_ResetOnly(w, ok, armed) ==
    LET w2 == send_cmd(w, "reset", pin_move_time)
        check_start_time == w2.next_cmd_time
        w3 == send_cmd(w2, "none", MIN_CMD_TIME)
        check_end_time == w3.next_cmd_time
    IN  verify_state(w3, check_start_time, check_end_time,
                     pin_up_triggered, "raise probe", ok, armed)

raise_probe(w, ok, armed) ==
    LET w1 == send_cmd(w, "reset", MIN_CMD_TIME)
        w2 == send_cmd(w1, "pin_up", pin_move_time)
        check_start_time == w2.next_cmd_time
        w3 == send_cmd(w2, "none", MIN_CMD_TIME)
        check_end_time == w3.next_cmd_time
    IN  verify_state(w3, check_start_time, check_end_time,
                     pin_up_triggered, "raise probe", ok, armed)

\* The throttled branch leaving next_test_time where the last test put it.
test_sensor_skip_NoPush(w) ==
    [w EXCEPT !.last_call = [pt |-> w.print_time, kind |-> "skip"]]

\* The throttled branch without the retest interval.
test_sensor_skip_NoInterval(w) ==
    [w EXCEPT !.next_test_time = w.print_time]

\* test_sensor, the throttled branch: the test is skipped.
test_sensor_skip(w) ==
    [w EXCEPT !.next_test_time = w.print_time + TEST_TIME,
              !.last_call = [pt |-> w.print_time, kind |-> "skip"]]

\* The successful branch without the retest interval.
test_sensor_passed_NoInterval(w, check_end_time) ==
    sync_print_time([w EXCEPT !.next_test_time = check_end_time])

\* test_sensor, after the verification: "Test was successful".
test_sensor_passed(w, check_end_time) ==
    sync_print_time([w EXCEPT !.next_test_time = check_end_time + TEST_TIME])

\* test_sensor, the test itself: raise the probe and test if it is raised.
test_sensor_run(w, ok, armed) ==
    LET w1 == sync_print_time(w)
        w2 == send_cmd(w1, "reset", pin_move_time)
        check_start_time == w2.next_cmd_time
        w3 == send_cmd(w2, "touch_mode", MIN_CMD_TIME)
        check_end_time == w3.next_cmd_time
        w4 == [send_cmd(w3, "none", MIN_CMD_TIME) EXCEPT
                 !.prev_test = w.last_test,
                 !.last_test = [pt |-> w.print_time, ok |-> ok,
                                ok_pt |-> IF ok THEN w.print_time
                                          ELSE w.last_test.ok_pt],
                 !.last_call = [pt |-> w.print_time,
                                kind |-> IF ok THEN "pass" ELSE "fail"]]
        w5 == verify_state(w4, check_start_time, check_end_time, TRUE,
                           "verify sensor state", ok, armed)
    IN  IF w5.err # "" THEN w5 ELSE test_sensor_passed(w5, check_end_time)

\* test_sensor whose "nothing to test" condition needs both flags.
test_sensor_BothFlags(w, ok, armed) ==
    IF ~pin_up_touch_triggered /\ pin_up_triggered
    THEN w
    ELSE
    LET w0 == Log(w, "get_last_move_time", "")
    IN  IF w0.print_time < w0.next_test_time
        THEN test_sensor_skip(w0)
        ELSE test_sensor_run(w0, ok, armed)

test_sensor(w, ok, armed) ==
    IF ~pin_up_touch_triggered \/ pin_up_triggered
    THEN w
    ELSE
    LET w0 == Log(w, "get_last_move_time", "")
    IN  IF w0.print_time < w0.next_test_time
        THEN test_sensor_skip(w0)
        ELSE test_sensor_run(w0, ok, armed)

\* home_prepare that carries on after a failed sensor test and reports the
\* failure at the end.
home_prepare_DeferredError(w, ok, armed) ==
    LET w1 == test_sensor(w, ok, armed)
        w2 == sync_print_time(w1)
        w3 == send_cmd(w2, "pin_down", pin_move_time - MIN_CMD_TIME)
        w4 == send_cmd(w3, "none", MIN_CMD_TIME)
        w5 == sync_print_time(w4)
        w6 == Log(w5, "mcu_endstop.home_prepare", "")
    IN  [w6 EXCEPT !.start_mcu_pos =
            [i \in DOMAIN steppers |-> <<steppers[i], mcu_position[steppers[i]]>>]]

home_prepare(w, ok, armed) ==
    LET w1 == test_sensor(w, ok, armed)
    IN  IF w1.err # ""
        THEN w1
        ELSE
        LET w2 == sync_print_time(w1)
            w3 == send_cmd(w2, "pin_down", pin_move_time - MIN_CMD_TIME)
            w4 == send_cmd(w3, "none", MIN_CMD_TIME)
            w5 == sync_print_time(w4)
            w6 == Log(w5, "mcu_endstop.home_prepare", "")
        IN  [w6 EXCEPT !.start_mcu_pos =
                [i \in DOMAIN steppers |-> <<steppers[i], mcu_position[steppers[i]]>>]]

\* home_finalize with the comparison of the deploy check negated.
home_finalize_ChangedFailsDeploy(w, est_time, ok, armed) ==
    LET w1 == sync_mcu_print_time(w, est_time)
        w2 == raise_probe(w1, ok, armed)
    IN  IF w2.err # ""
        THEN w2
        ELSE
        LET w3 == sync_print_time(w2)
        IN  IF \E i \in DOMAIN w3.start_mcu_pos :
                  mcu_position[w3.start_mcu_pos[i][1]] # w3.start_mcu_pos[i][2]
            THEN [w3 EXCEPT !.err = "BLTouch failed to deploy"]
            ELSE Log(w3, "mcu_endstop.home_finalize", "")

\* home_finalize that reports a failed deploy only when no stepper moved.
home_finalize_AllUnchanged(w, est_time, ok, armed) ==
    LET w1 == sync_mcu_print_time(w, est_time)
        w2 == raise_probe(w1, ok, armed)
    IN  IF w2.err # ""
        THEN w2
        ELSE
        LET w3 == sync_print_time(w2)
        IN  IF /\ w3.start_mcu_pos # << >>
               /\ \A i \in DOMAIN w3.start_mcu_pos :
                     mcu_position[w3.start_mcu_pos[i][1]] = w3.start_mcu_pos[i][2]
            THEN [w3 EXCEPT !.err = "BLTouch failed to deploy"]
            ELSE Log(w3, "mcu_endstop.home_finalize", "")

\* home_finalize without the deploy check.
home_finalize_NoDeployCheck(w, est_time, ok, armed) ==
    LET w1 == sync_mcu_print_time(w, est_time)
        w2 == raise_probe(w1, ok, armed)
    IN  IF w2.err # ""
        THEN w2
        ELSE Log(sync_print_time(w2), "mcu_endstop.home_finalize", "")

home_finalize(w, est_time, ok, armed) ==
    LET w1 == sync_mcu_print_time(w, est_time)
        w2 == raise_probe(w1, ok, armed)
    IN  IF w2.err # ""
        THEN w2
        ELSE
        LET w3 == sync_print_time(w2)
        IN  IF \E i \in DOMAIN w3.start_mcu_pos :
                  mcu_position[w3.start_mcu_pos[i][1]] = w3.start_mcu_pos[i][2]
            THEN [w3 EXCEPT !.err = "BLTouch failed to deploy"]
            ELSE Log(w3, "mcu_endstop.home_finalize", "")

\* cmd_BLTOUCH_DEBUG that leaves the command it sent on the pin.
cmd_BLTOUCH_DEBUG_NoIdle(w, cmd) ==
    IF cmd \notin CommandNames \ {"none"}
    THEN Log(w, "respond_info", "BLTouch commands")
    ELSE
    LET w0 == Log(w, "respond_info", cmd)
        w1 == sync_print_time(w0)
        w2 == send_cmd(w1, cmd, pin_move_time)
    IN  sync_print_time(w2)

\* cmd_BLTOUCH_DEBUG that sends without synchronising first.
cmd_BLTOUCH_DEBUG_NoLeadingSync(w, cmd) ==
    IF cmd \notin CommandNames \ {"none"}
    THEN Log(w, "respond_info", "BLTouch commands")
    ELSE
    LET w0 == Log(w, "respond_info", cmd)
        w2 == send_cmd(w0, cmd, pin_move_time)
        w3 == send_cmd(w2, "none", MIN_CMD_TIME)
    IN  sync_print_time(w3)

\* cmd_BLTOUCH_DEBUG with COMMAND=cmd ("" when the parameter is absent).
cmd_BLTOUCH_DEBUG(w, cmd) ==
    IF cmd \notin CommandNames \ {"none"}
    THEN Log(w, "respond_info", "BLTouch commands")
    ELSE
    LET w0 == Log(w, "respond_info", cmd)
        w1 == sync_print_time(w0)
        w2 == send_cmd(w1, cmd, pin_move_time)
        w3 == send_cmd(w2, "none", MIN_CMD_TIME)
    IN  sync_print_time(w3)

\* printer_state that raises the probe on every event.
printer_state_AnyState(w, state, est_time, ok, armed) ==
    raise_probe(sync_mcu_print_time(w, est_time), ok, armed)

printer_state(w, state, est_time, ok, armed) ==
    IF state = "connect"
    THEN raise_probe(sync_mcu_print_time(w, est_time), ok, armed)
    ELSE w

\* ----------------------------------------------------------------- actions
\* Estimated print times the mcu may report when asked.
EstTimes == {0, print_time}
\* COMMAND parameters of BLTOUCH_DEBUG; "" is an absent parameter.
DebugParams == {"", "pin_down"}

\* The state after a call that ended in record w.
Commit(w, name, kind) ==
    /\ next_cmd_time' = w.next_cmd_time
    /\ next_test_time' = w.next_test_time
    /\ start_mcu_pos' = w.start_mcu_pos
    /\ commanded_position' = w.commanded_position
    /\ print_time' = w.print_time
    /\ trace' = w.trace
    /\ err' = w.err
    /\ err_kind' = IF w.err = "" THEN "" ELSE kind
    /\ window' = w.window
    /\ last_window_end' = w.last_window_end
    /\ prev_positions' = w.prev_positions
    /\ armed_positions' = w.armed_positions
    /\ last_test' = w.last_test
    /\ prev_test' = w.prev_test
    /\ sends' = w.sends
    /\ syncs' = w.syncs
    /\ attempt' = w.attempt
    /\ last_call' = w.last_call
    /\ op' = name
    /\ ncalls' = ncalls + 1
    /\ UNCHANGED <<config, mcu_position>>

\* The mcu's estimate and the sensing primitive are consulted on connect only.
PrinterState ==
    /\ ncalls < MaxCalls
    /\ \E state \in StateEvents :
       \E est_time \in IF state = "connect" THEN EstTimes ELSE {0},
          ok \in IF state = "connect" THEN BOOLEAN ELSE {TRUE},
          armed \in IF state = "connect" THEN ArmedPositions
                    ELSE {commanded_position} :
          Commit(printer_state(World, state, est_time, ok, armed),
                 "printer_state:" \o state, "config_error")

TestSensor ==
    /\ ncalls < MaxCalls
    /\ \E ok \in BOOLEAN, armed \in ArmedPositions :
          Commit(test_sensor(World, ok, armed), "test_sensor", "EndstopError")

\* The homing attempt after home_prepare ended in record w.
Prepared(w) ==
    IF w.err # ""
    THEN [w EXCEPT !.attempt.phase = "aborted"]
    ELSE [w EXCEPT !.attempt =
            [phase |-> "prepared",
             start |-> next_cmd_time,
             after_connect |-> (op = "printer_state:connect" /\ err = ""),
             pin_down_at |->
                 w.sends[CHOOSE i \in DOMAIN w.sends :
                             w.sends[i].cmd = "pin_down"].at]]

HomePrepare ==
    /\ ncalls < MaxCalls
    /\ \E ok \in BOOLEAN, armed \in ArmedPositions :
          Commit(Prepared(home_prepare(World, ok, armed)),
                 "home_prepare", "EndstopError")

\* The homing attempt after home_finalize ended in record w.
Finalized(w) ==
    IF w.err = "BLTouch failed to raise probe" \/ w.attempt.phase = "none"
    THEN w
    ELSE [w EXCEPT !.attempt.phase = "finalized"]

HomeFinalize ==
    /\ ncalls < MaxCalls
    /\ \E est_time \in EstTimes, ok \in BOOLEAN, armed \in ArmedPositions :
          Commit(Finalized(home_finalize(World, est_time, ok, armed)),
                 "home_finalize", "EndstopError")

BltouchDebug ==
    /\ ncalls < MaxCalls
    /\ \E cmd \in DebugParams :
          Commit(cmd_BLTOUCH_DEBUG(World, cmd), "cmd_BLTOUCH_DEBUG", "")

\* What a step of the environment leaves in the record of the last call.
EnvStep(name) ==
    /\ op' = name
    /\ trace' = << >>
    /\ err' = ""
    /\ err_kind' = ""
    /\ window' = NoWindow
    /\ prev_positions' = commanded_position
    /\ armed_positions' = commanded_position
    /\ prev_test' = NoTest
    /\ sends' = << >>
    /\ syncs' = << >>
    /\ UNCHANGED <<config, ncalls, next_cmd_time, next_test_time,
                   start_mcu_pos, commanded_position, last_window_end,
                   last_test, attempt, last_call>>

\* The toolhead schedules moves: its last move time advances.
ToolheadMove ==
    /\ \E d \in MoveTimes :
          /\ print_time + d <= MaxTime
          /\ print_time' = print_time + d
    /\ EnvStep("toolhead")
    /\ UNCHANGED mcu_position

\* A homing move steps a stepper: its hardware position counter changes.
\* The axis moves only once a homing attempt has been prepared.
StepperMove ==
    /\ start_mcu_pos # << >>
    /\ \E s \in Range(steppers) :
          mcu_position' =
              [mcu_position EXCEPT ![s] = OtherPosition(mcu_position[s])]
    /\ EnvStep("stepper")
    /\ UNCHANGED print_time

Next ==
    \/ PrinterState
    \/ TestSensor
    \/ HomePrepare
    \/ HomeFinalize
    \/ BltouchDebug
    \/ ToolheadMove
    \/ StepperMove

Spec == Init /\ [][Next]_vars

\* ------------------------------------------- the pin move time calculation
\* Construction up to the calculation: default flags, no stepper attached,
\* the configured value read and pin_move_time not yet assigned.
InitPinMove ==
    /\ next_cmd_time = 0
    /\ next_test_time = 0
    /\ pin_up_touch_triggered = TRUE
    /\ pin_up_triggered = FALSE
    /\ pin_move_time_config \in PinMoveTimeInputs
    /\ pin_move_time = 0
    /\ start_mcu_pos = << >>
    /\ steppers = << >>
    /\ commanded_position = << >>
    /\ mcu_position = << >>
    /\ print_time = 0
    /\ op = "config"
    /\ trace = << >>
    /\ err = ""
    /\ err_kind = ""
    /\ window = NoWindow
    /\ last_window_end = 0
    /\ prev_positions = commanded_position
    /\ armed_positions = commanded_position
    /\ last_test = NoTest
    /\ prev_test = NoTest
    /\ sends = << >>
    /\ syncs = << >>
    /\ attempt = NoAttempt
    /\ last_call = NoCall
    /\ ncalls = 0

CalcPinMoveTime ==
    /\ op = "config"
    /\ pin_move_time' = PinMoveTime(pin_move_time_config)
    /\ op' = "__init__"
    /\ UNCHANGED <<next_cmd_time, next_test_time, pin_up_touch_triggered,
                   pin_up_triggered, pin_move_time_config, start_mcu_pos,
                   steppers, commanded_position, mcu_position, print_time,
                   trace, err, err_kind, window, last_window_end,
                   prev_positions, armed_positions, last_test, prev_test,
                   sends, syncs, attempt, last_call, ncalls>>

SpecPinMove == InitPinMove /\ [][CalcPinMoveTime]_vars

\* ------------------------------------------------------------------ claims
HasEv(e) == \E i \in DOMAIN trace : trace[i].ev = e
HasCall(e, a) == \E i \in DOMAIN trace : trace[i] = Ev(e, a)
VerifyErrors == {"BLTouch failed to raise probe",
                 "BLTouch failed to verify sensor state"}
DeployError == "BLTouch failed to deploy"
\* Every snapshotted stepper's hardware counter equals its snapshot value.
AllUnchanged ==
    \A i \in DOMAIN start_mcu_pos :
        mcu_position[start_mcu_pos[i][1]] = start_mcu_pos[i][2]
IsCmd(i) == trace[i].ev = "send_cmd"
BurstStart(i) == IsCmd(i) /\ (i = 1 \/ ~IsCmd(i - 1))
BurstEnd(i) == IsCmd(i) /\ (i = Len(trace) \/ ~IsCmd(i + 1))
\* The step is a call of the named entry point.
Called(name) == op' = name /\ ncalls' = ncalls + 1

\* C1 (as claimed): when the sensing primitive times out, verify raises the
\* error and the commanded positions are what they were before the call.
C1_TimeoutRestoresPositions ==
    HasCall("home_wait", "timeout") =>
        /\ err \in VerifyErrors
        /\ commanded_position = prev_positions

\* C2: when the sensing primitive reports the expected state inside the
\* window, verify raises nothing and every stepper's commanded position is
\* what it was before the call, whatever the primitive left there.
C2_SuccessRestoresPositions ==
    HasCall("home_wait", "triggered") =>
        /\ err \notin VerifyErrors
        /\ commanded_position = prev_positions
C2_Witness ==
    /\ HasCall("home_wait", "triggered")
    /\ armed_positions # prev_positions
    /\ err = ""

\* C3 (as claimed): finalize raises "failed to deploy" whenever every tracked
\* stepper's counter equals its snapshot, whatever raise_probe's verification
\* did and however many steppers are tracked.
C3_AllUnchangedAlwaysFailsDeploy ==
    (op = "home_finalize" /\ AllUnchanged) => err = DeployError
\* C3 (amended): finalize raises "failed to deploy" whenever raise_probe's
\* verification succeeded, at least one stepper is tracked and every tracked
\* stepper's counter equals its snapshot; a failed verification raises
\* "failed to raise probe" instead, and an empty snapshot raises nothing.
C3_AllUnchangedFailsDeploy ==
    (op = "home_finalize" /\ AllUnchanged) =>
        /\ (HasCall("home_wait", "triggered") /\ start_mcu_pos # << >>)
              => (err = DeployError /\ err_kind = "EndstopError")
        /\ HasCall("home_wait", "timeout")
              => err = "BLTouch failed to raise probe"
        /\ (HasCall("home_wait", "triggered") /\ start_mcu_pos = << >>)
              => err = ""
C3_Witness ==
    /\ op = "home_finalize"
    /\ start_mcu_pos # << >>
    /\ AllUnchanged
    /\ err = DeployError

\* C4: next_cmd_time never decreases, over any sequence of calls, failed
\* verifications included.
C4_NextCmdTimeMonotone == [][next_cmd_time' >= next_cmd_time]_vars
C4_Witness ==
    /\ op = "home_finalize"
    /\ err = "BLTouch failed to raise probe"
    /\ next_cmd_time > print_time
    /\ print_time > 0

\* C5: next_test_time never decreases, whether test_sensor runs the test,
\* skips it or fails.
C5_NextTestTimeMonotone == [][next_test_time' >= next_test_time]_vars
C5_Witness ==
    /\ op = "test_sensor"
    /\ trace = <<Ev("get_last_move_time", "")>>
    /\ last_test.ok
    /\ next_test_time = print_time + TEST_TIME

\* C6 (as claimed): two test_sensor calls less than TEST_TIME apart never both
\* issue commands, whatever the first call's verification did.
C6_NoRetestWithinInterval ==
    prev_test.pt >= 0 => last_test.pt - prev_test.pt >= TEST_TIME
\* C6 (amended): a test_sensor call issues no commands less than TEST_TIME
\* after a call whose test ran and passed; a test that failed leaves
\* next_test_time alone and may be run again at once.
C6_NoRetestWithinIntervalOfPass ==
    /\ prev_test.ok_pt >= 0 => last_test.pt - prev_test.ok_pt >= TEST_TIME
    /\ (prev_test.pt >= 0 /\ last_test.pt - prev_test.pt < TEST_TIME)
          => ~prev_test.ok
C6_Witness ==
    /\ op = "test_sensor"
    /\ trace = <<Ev("get_last_move_time", "")>>
    /\ last_test.ok
    /\ print_time > last_test.pt + MIN_CMD_TIME
    /\ print_time - last_test.pt < TEST_TIME

\* C7 (as claimed): every run of send_cmd calls is immediately preceded and
\* immediately followed by a sync_print_time call.
C7_BurstsBetweenSyncPrintTime ==
    \A i \in DOMAIN trace :
        /\ BurstStart(i) => (i > 1 /\ trace[i - 1].ev = "sync_print_time")
        /\ BurstEnd(i) =>
              (i < Len(trace) /\ trace[i + 1].ev = "sync_print_time")
\* C7 (amended): every run of send_cmd calls is immediately preceded by a
\* synchronisation, sync_mcu_print_time at connect and in home_finalize and
\* sync_print_time elsewhere, and immediately followed by sync_print_time or
\* by the verification of its window; sync_print_time follows a verification
\* only when it succeeded, and not at connect.
C7_BurstsBetweenSyncs ==
    \A i \in DOMAIN trace :
        /\ BurstStart(i) =>
              /\ i > 1
              /\ trace[i - 1].ev =
                    IF op \in {"printer_state:connect", "home_finalize"}
                    THEN "sync_mcu_print_time" ELSE "sync_print_time"
        /\ BurstEnd(i) =>
              /\ i < Len(trace)
              /\ trace[i + 1].ev \in {"sync_print_time", "home_start"}
        /\ trace[i] = Ev("home_wait", "timeout") => i = Len(trace)
        /\ trace[i] = Ev("home_wait", "triggered") =>
              IF op = "printer_state:connect"
              THEN i = Len(trace)
              ELSE i < Len(trace) /\ trace[i + 1].ev = "sync_print_time"
C7_Witness ==
    /\ op = "home_finalize"
    /\ err = ""
    /\ HasCall("send_cmd", "pin_up")
    /\ HasCall("mcu_endstop.home_finalize", "")

\* C8: when the sensor test inside home_prepare fails, home_prepare raises
\* the error and does nothing more: no pin_down is sent, the endstop's
\* home_prepare is not called, no snapshot is taken, next_test_time stays.
C8_FailedTestAbortsPrepare ==
    [][(Called("home_prepare") /\ err' = "BLTouch failed to verify sensor state")
        => /\ err_kind' = "EndstopError"
           /\ ~HasCall("send_cmd", "pin_down")'
           /\ ~HasEv("mcu_endstop.home_prepare")'
           /\ next_test_time' = next_test_time
           /\ start_mcu_pos' = start_mcu_pos]_vars
C8_Witness ==
    /\ op = "home_prepare"
    /\ err = "BLTouch failed to verify sensor state"
    /\ HasCall("send_cmd", "touch_mode")

\* C9: with triggered_on_pin_up_touch_mode false or triggered_on_pin_up true,
\* test_sensor does nothing: no call on any collaborator, no field changed.
C9_NothingToTest ==
    [][(Called("test_sensor") /\ (~pin_up_touch_triggered \/ pin_up_triggered))
        => /\ trace' = << >>
           /\ err' = ""
           /\ next_cmd_time' = next_cmd_time
           /\ next_test_time' = next_test_time
           /\ print_time' = print_time
           /\ commanded_position' = commanded_position]_vars
C9_Witness ==
    /\ op = "test_sensor"
    /\ pin_up_touch_triggered
    /\ pin_up_triggered
    /\ print_time >= next_test_time + TEST_TIME - 1000000
    /\ next_cmd_time > 0
    /\ trace = << >>

\* C10: every verification window has start <= end and starts no earlier
\* than the end of any window armed before it.
C10_WindowsOrdered ==
    HasEv("home_start") =>
        /\ window.start <= window.end
        /\ window.start >= window.prev_end
C10_Witness ==
    /\ HasEv("home_start")
    /\ window.prev_end > 0
    /\ window.start < window.end

\* The step is a call of test_sensor, directly or at the start of
\* home_prepare, that ran the test.
TestRan ==
    /\ Called("test_sensor") \/ Called("home_prepare")
    /\ HasCall("send_cmd", "touch_mode")'
\* Every snapshotted stepper's hardware counter is one above its snapshot.
AllMovedByOne ==
    \A i \in DOMAIN start_mcu_pos :
        mcu_position[start_mcu_pos[i][1]] = start_mcu_pos[i][2] + 1

\* C11 (as claimed): whenever home_finalize's deploy check compares snapshot
\* entries, they were captured by a home_prepare that returned and that no
\* home_finalize or aborted home_prepare has followed.
C11_SnapshotFromLatestPrepare ==
    [][(/\ Called("home_finalize")
        /\ HasCall("home_wait", "triggered")'
        /\ start_mcu_pos # << >>)
          => attempt.phase = "prepared"]_vars

\* C12: with the default flags, a home_finalize that follows a home_prepare
\* that returned, with every tracked stepper's hardware counter one above its
\* snapshot and raise_probe's verification succeeding, raises nothing, calls
\* mcu_endstop.home_finalize, and leaves next_cmd_time above its value when
\* that home_prepare was called.
C12_HomingAttemptCompletes ==
    [][(/\ Called("home_finalize")
        /\ attempt.phase = "prepared"
        /\ pin_up_touch_triggered /\ ~pin_up_triggered
        /\ HasCall("home_wait", "triggered")'
        /\ AllMovedByOne)
          => /\ err' = ""
             /\ HasEv("mcu_endstop.home_finalize")'
             /\ next_cmd_time' > attempt.start]_vars
C12_Witness ==
    /\ op = "home_finalize"
    /\ ncalls = 3
    /\ attempt.phase = "finalized"
    /\ attempt.after_connect
    /\ pin_up_touch_triggered /\ ~pin_up_triggered
    /\ Len(start_mcu_pos) = 2
    /\ AllMovedByOne
    /\ err = ""
    /\ next_cmd_time > attempt.start

\* C13: on connect the controller calls sync_mcu_print_time and then
\* raise_probe (reset, pin_up, idle, one verification); a failed verification
\* is raised as config_error with the EndstopError's message; any other
\* event calls nothing and changes nothing.
C13_ConnectRaisesProbe ==
    [][/\ Called("printer_state:connect") =>
            /\ Len(trace') = 6
            /\ SubSeq(trace', 1, 5) =
                  <<Ev("sync_mcu_print_time", ""), Ev("send_cmd", "reset"),
                    Ev("send_cmd", "pin_up"), Ev("send_cmd", "none"),
                    Ev("home_start", "")>>
            /\ trace'[6] = Ev("home_wait", "timeout") =>
                  /\ err' = "BLTouch failed to raise probe"
                  /\ err_kind' = "config_error"
            /\ trace'[6] = Ev("home_wait", "triggered") => err' = ""
       /\ (\E state \in StateEvents \ {"connect"} :
              Called("printer_state:" \o state)) =>
            /\ trace' = << >>
            /\ err' = ""
            /\ UNCHANGED <<next_cmd_time, next_test_time, start_mcu_pos,
                           commanded_position, mcu_position, print_time,
                           last_window_end, config>>]_vars
C13_Witness ==
    /\ op = "printer_state:connect"
    /\ err = "BLTouch failed to raise probe"
    /\ err_kind = "config_error"
    /\ trace[1] = Ev("sync_mcu_print_time", "")

\* C14: for every configured pin_move_time, the pin_move_time __init__ keeps
\* is the smallest whole multiple of SIGNAL_PERIOD that is at least
\* max(configured value, MIN_CMD_TIME): a multiple of the period, at least
\* that maximum, less than one period above it, and at least 4 periods.
C14_PinMoveTimeRoundedUp ==
    op = "__init__" =>
        /\ pin_move_time % SIGNAL_PERIOD = 0
        /\ pin_move_time >= Max(pin_move_time_config, MIN_CMD_TIME)
        /\ pin_move_time - SIGNAL_PERIOD < Max(pin_move_time_config, MIN_CMD_TIME)
        /\ pin_move_time >= 4 * SIGNAL_PERIOD
C14_Witness ==
    /\ op = "__init__"
    /\ pin_move_time_config = 8 * SIGNAL_PERIOD
    /\ pin_move_time = pin_move_time_config

\* C15: home_finalize returns without error only if every snapshotted
\* stepper's hardware counter differs from its snapshot; once raise_probe
\* has verified, one unchanged counter raises "failed to deploy", whatever
\* the other counters did, and mcu_endstop.home_finalize is not called.
C15_AnyUnchangedFailsDeploy ==
    op = "home_finalize" =>
        /\ err = "" =>
              \A i \in DOMAIN start_mcu_pos :
                  mcu_position[start_mcu_pos[i][1]] # start_mcu_pos[i][2]
        /\ (/\ HasCall("home_wait", "triggered")
            /\ \E i \in DOMAIN start_mcu_pos :
                  mcu_position[start_mcu_pos[i][1]] = start_mcu_pos[i][2])
              => /\ err = DeployError
                 /\ err_kind = "EndstopError"
                 /\ ~HasEv("mcu_endstop.home_finalize")
C15_Witness ==
    /\ op = "home_finalize"
    /\ err = DeployError
    /\ Len(start_mcu_pos) = 2
    /\ mcu_position[start_mcu_pos[1][1]] # start_mcu_pos[1][2]
    /\ mcu_position[start_mcu_pos[2][1]] = start_mcu_pos[2][2]

\* C16 (as claimed): every send_cmd moves next_cmd_time on by at least
\* max(duration, MIN_CMD_TIME) and returns the new value, the time the next
\* command is sent for, with the mcu's clock translation truncating to whole
\* ticks.
C16_SendAdvancesByDuration ==
    \A i \in DOMAIN sends :
        /\ sends[i].returned - sends[i].at
              >= Max(sends[i].duration, MIN_CMD_TIME)
        /\ sends[i].returned =
              IF i < Len(sends) THEN sends[i + 1].at ELSE sends[i].returned

\* C17: sync_print_time with last move time T: if next_cmd_time > T it dwells
\* for exactly next_cmd_time - T and leaves next_cmd_time alone, otherwise it
\* sets next_cmd_time to T and does not dwell; either way the last move time
\* and next_cmd_time are equal when it returns.
C17_SyncAlignsTimes ==
    /\ \A i \in DOMAIN syncs :
          /\ IF syncs[i].next_cmd_time > syncs[i].print_time
             THEN /\ syncs[i].dwell =
                        syncs[i].next_cmd_time - syncs[i].print_time
                  /\ syncs[i].next_cmd_time_after = syncs[i].next_cmd_time
             ELSE /\ syncs[i].dwell = 0
                  /\ syncs[i].next_cmd_time_after = syncs[i].print_time
          /\ syncs[i].print_time_after = syncs[i].next_cmd_time_after
    /\ (trace # << >> /\ trace[Len(trace)].ev = "sync_print_time")
          => print_time = next_cmd_time
C17_Witness ==
    /\ op = "cmd_BLTOUCH_DEBUG"
    /\ Len(syncs) = 2
    /\ syncs[1].next_cmd_time < syncs[1].print_time
    /\ syncs[1].dwell = 0
    /\ syncs[2].dwell > 0
    /\ print_time = next_cmd_time

\* C18: when a call that sent commands returns or raises, the command it
\* sent last is the idle one (None).
C18_LastCommandIdle ==
    sends # << >> => sends[Len(sends)].cmd = "none"
C18_Witness ==
    /\ op = "test_sensor"
    /\ err = "BLTouch failed to verify sensor state"
    /\ Len(sends) = 3
    /\ sends[2].cmd = "touch_mode"

\* C19: however home_finalize ends, the last command other than idle it sent
\* is pin_up, sent for a time after the pin_down of the home_prepare before
\* it, and idle follows it.
C19_FinalizeLeavesPinUp ==
    [][Called("home_finalize") =>
          LET sent == {i \in DOMAIN sends' : sends'[i].cmd # "none"}
              last == CHOOSE i \in sent : \A j \in sent : j <= i
          IN  /\ sent # {}
              /\ sends'[last].cmd = "pin_up"
              /\ last < Len(sends')
              /\ attempt.pin_down_at >= 0
                    => sends'[last].at > attempt.pin_down_at
              /\ err' \in {"", "BLTouch failed to raise probe", DeployError}]_vars
C19_Witness ==
    /\ op = "home_finalize"
    /\ err = "BLTouch failed to raise probe"
    /\ attempt.phase = "prepared"
    /\ attempt.pin_down_at >= 0
    /\ sends[2].cmd = "pin_up"
    /\ sends[2].at > attempt.pin_down_at

\* C20: with the default flags, a test_sensor call runs the test after a
\* call that passed or skipped only if its print time is at least TEST_TIME
\* after that call's; a call skips only after a test that passed, and leaves
\* next_test_time at its print time + TEST_TIME.
C20_NoRetestInCloseRun ==
    [][(pin_up_touch_triggered /\ ~pin_up_triggered) =>
          /\ (TestRan /\ last_call.kind \in {"skip", "pass"})
                => print_time - last_call.pt >= TEST_TIME
          /\ last_call'.kind = "skip"
                => /\ last_test'.ok
                   /\ next_test_time' = last_call'.pt + TEST_TIME]_vars
C20_Witness ==
    /\ op = "test_sensor"
    /\ pin_up_touch_triggered /\ ~pin_up_triggered
    /\ trace = <<Ev("get_last_move_time", "")>>
    /\ last_call = [pt |-> print_time, kind |-> "skip"]
    /\ last_test.ok
    /\ print_time - last_test.pt > TEST_TIME

====
